---- MODULE Spec2Model ----
(***************************************************************************)
(* Model of the per-profile ledger of edsontomaz/gestao_financeira:        *)
(* MemStorage (server/storage.ts), the REST handlers (server/routes.ts),   *)
(* the zod schemas (shared/schema.ts) and the OneDrive file of a profile   *)
(* (server/onedrive.ts).                                                   *)
(* Of the client: the import of a sheet (components/import-export.tsx) and *)
(* the button Salvar of the page Resumo.                                   *)
(*                                                                         *)
(* Representation.                                                         *)
(*  - The Map<string, Transaction> is a sequence of records in insertion   *)
(*    order (a JavaScript Map iterates in insertion order; set() on an     *)
(*    existing key keeps the key's position).                              *)
(*  - Ids are positive integers; randomUUID() is the counter nextId, so a  *)
(*    generated id never collides with an id generated before.             *)
(*  - Amounts are integers in cents.  Math.round is round-half-up.         *)
(*  - Dates are day-granular integers ym * 100 + day, ym = year*12+month0; *)
(*    the local time zone is taken to be UTC.                              *)
(*  - undefined is a per-type sentinel (NoId, NoNum, NoStr, NoDate); an    *)
(*    unparseable date string is BadDate.                                  *)
(*  - The remote file of a profile is cloud[profile]: absent, or the JSON   *)
(*    array it holds as a sequence of rows.                                *)
(*  - An optional result (Transaction | undefined) is a sequence of        *)
(*    length 0 or 1.                                                       *)
(***************************************************************************)
EXTENDS Integers, Sequences, FiniteSets, TLC

VARIABLES transactions, last, nextId, now, cloud, resumo

vars == <<transactions, last, nextId, now, cloud, resumo>>

NoId == 0
NoNum == -1
NoStr == "-"
NoDate == 0
BadDate == -1

(***************************************************************************)
(* shared/schema.ts: enumerations                                          *)
(***************************************************************************)
paymentMethods == {"credit_card", "debit_card", "pix", "cash"}

cardOperators ==
  {"santander", "c6", "porto", "mercado_pago", "nubank", "itau", "bradesco",
   "caixa", "banco_do_brasil", "inter", "next", "picpay", "other"}

transactionTypes == {"income", "expense"}

profiles == {"edson", "tais"}

incomeCategories == {"salary", "freelance", "investments", "rent", "other_income"}

expenseCategories ==
  {"food", "transport", "health", "education", "entertainment", "shopping",
   "bills", "housing", "reimbursement", "other_expense"}

MaxInstallments == 48

(***************************************************************************)
(* The undefined value of every field of a request body.                   *)
(***************************************************************************)
AbsentOf ==
  [type |-> NoStr, amount |-> NoNum, description |-> NoStr,
   paymentMethod |-> NoStr, cardOperator |-> NoStr, category |-> NoStr,
   installments |-> NoNum, currentInstallment |-> NoNum,
   parentTransactionId |-> NoId, createdAt |-> NoDate, dueDate |-> NoDate,
   profile |-> NoStr]

SchemaFields == DOMAIN AbsentOf

(* zod checks of the single fields of insertTransactionSchema *)
FieldOk(f, v) ==
  CASE f = "type" -> v \in transactionTypes
    [] f = "amount" -> v > 0
    [] f = "description" -> v # ""
    [] f = "paymentMethod" -> v \in paymentMethods
    [] f = "cardOperator" -> v \in cardOperators
    [] f = "category" -> v \in incomeCategories \cup expenseCategories
    [] f = "installments" -> v >= 1 /\ v <= MaxInstallments
    [] f = "currentInstallment" -> v >= 1
    [] OTHER -> IF f = "profile" THEN v \in profiles ELSE TRUE

RequiredFields == {"type", "amount", "description", "paymentMethod", "category"}

(* insertTransactionSchema.safeParse(b).success *)
insertTransactionSchema(b) ==
  \A f \in SchemaFields :
    IF b[f] = AbsentOf[f] THEN f \notin RequiredFields ELSE FieldOk(f, b[f])

(* updateTransactionSchema = insertTransactionSchema.partial() *)
updateTransactionSchema(b) ==
  \A f \in SchemaFields : b[f] = AbsentOf[f] \/ FieldOk(f, b[f])

(* parsed.data: a z.object strips the keys the schema does not name (id) *)
ParsedData(b) == [f \in SchemaFields |-> b[f]]

(***************************************************************************)
(* Map<string, Transaction>                                                *)
(***************************************************************************)
MapValues(m) == {m[i] : i \in 1..Len(m)}

MapKeys(m) == {m[i].id : i \in 1..Len(m)}

MapGet(m, id) == SelectSeq(m, LAMBDA t : t.id = id)

MapSet(m, id, tx) ==
  IF id \in MapKeys(m)
    THEN [i \in 1..Len(m) |-> IF m[i].id = id THEN tx ELSE m[i]]
    ELSE Append(m, tx)

(* m after set(txs[i].id, txs[i]) for i = 1..Len(txs), one call after the   *)
(* other, whatever the ids                                                 *)
RECURSIVE MapSetAll(_, _)
MapSetAll(m, txs) ==
  IF txs = <<>> THEN m ELSE MapSetAll(MapSet(m, txs[1].id, txs[1]), Tail(txs))

(* m after set(txs[i].id, txs[i]) for i = 1..Len(txs), the ids of txs being *)
(* pairwise different                                                      *)
MapSetEach(m, txs) ==
  [i \in 1..Len(m) |->
     IF \E j \in 1..Len(txs) : txs[j].id = m[i].id
       THEN txs[CHOOSE j \in 1..Len(txs) : txs[j].id = m[i].id]
       ELSE m[i]]
  \o SelectSeq(txs, LAMBDA t : t.id \notin MapKeys(m))

MapDelete(m, id) == SelectSeq(m, LAMBDA t : t.id # id)

(***************************************************************************)
(* JavaScript Date, to the day                                             *)
(***************************************************************************)
(* the largest time value of a Date: +275760-09-13T00:00:00.000Z *)
MaxTime == (275760 * 12 + 8) * 100 + 13

getFullYear(dt) == (dt \div 100) \div 12

getMonth(dt) == (dt \div 100) % 12

getDate(dt) == dt % 100

IsLeapYear(y) == (y % 4 = 0 /\ y % 100 # 0) \/ y % 400 = 0

DaysInMonth(ym) ==
  LET m == ym % 12
  IN  IF m = 1 THEN (IF IsLeapYear(ym \div 12) THEN 29 ELSE 28)
      ELSE IF m \in {3, 5, 8, 10} THEN 30 ELSE 31

(* TimeClip: a time value past the largest one is NaN *)
TimeClip(dt) == IF dt > MaxTime THEN BadDate ELSE dt

(* Date.prototype.setMonth(month): the day of the month is kept and a day  *)
(* that the target month does not have runs over into the next month       *)
setMonth(dt, month) ==
  IF dt = BadDate THEN BadDate
  ELSE LET ym == getFullYear(dt) * 12 + month
           d == getDate(dt)
       IN  TimeClip(IF d <= DaysInMonth(ym)
                      THEN ym * 100 + d
                      ELSE (ym + 1) * 100 + (d - DaysInMonth(ym)))

(* Math.floor(x / n) in the place of Math.round(x / n) *)
MathFloor(x, n) == x \div n

(* Math.round(x / n) of two positive integers: halves round up *)
MathRound(x, n) == (2 * x + n) \div (2 * n)

(***************************************************************************)
(* MemStorage                                                              *)
(***************************************************************************)
(* the comparator of getAllTransactions: negative, zero (also NaN) or      *)
(* positive                                                                *)
CompareCreatedAt(a, b) ==
  IF a.createdAt = BadDate \/ b.createdAt = BadDate THEN 0
  ELSE b.createdAt - a.createdAt

RECURSIVE InsertSorted(_, _)
InsertSorted(s, x) ==
  IF s = <<>> THEN <<x>>
  ELSE IF CompareCreatedAt(s[Len(s)], x) > 0
         THEN Append(InsertSorted(SubSeq(s, 1, Len(s) - 1), x), s[Len(s)])
         ELSE Append(s, x)

(* Array.prototype.sort: stable *)
RECURSIVE SortNewestFirst(_)
SortNewestFirst(s) ==
  IF s = <<>> THEN <<>>
  ELSE InsertSorted(SortNewestFirst(SubSeq(s, 1, Len(s) - 1)), s[Len(s)])

getAllTransactions(m, profile) ==
  SortNewestFirst(SelectSeq(m, LAMBDA t : t.profile = profile))

(* getTransactionById without its profile check *)
getTransactionByIdAnyProfile(m, id, profile) == MapGet(m, id)

(* profile = NoStr is the call without the optional profile argument *)
getTransactionById(m, id, profile) ==
  LET transaction == MapGet(m, id)
  IN  IF transaction # <<>> /\ profile # NoStr /\ transaction[1].profile # profile
        THEN <<>>
        ELSE transaction

NewTransaction(id, insertTransaction, profile, nowv) ==
  [f \in SchemaFields \cup {"id"} |->
     CASE f = "id" -> id
       [] f = "profile" -> profile
       [] f = "createdAt" -> IF insertTransaction.createdAt = NoDate
                               THEN nowv ELSE insertTransaction.createdAt
       [] OTHER -> insertTransaction[f]]

(* createTransaction with id = randomUUID(), and createTransactionWithId *)
createTransactionWithId(m, id, insertTransaction, profile, nowv) ==
  LET transaction == NewTransaction(id, insertTransaction, profile, nowv)
  IN  [store |-> MapSet(m, id, transaction), result |-> <<transaction>>]

createTransaction(m, id, insertTransaction, profile, nowv) ==
  createTransactionWithId(m, id, insertTransaction, profile, nowv)

(* { ...existing, ...updateData } *)
SpreadUpdate(existing, updateData) ==
  [f \in DOMAIN existing |->
     IF f \in DOMAIN updateData /\ updateData[f] # AbsentOf[f]
       THEN updateData[f] ELSE existing[f]]

(* updateTransaction without its profile check *)
updateTransactionAnyProfile(m, id, updateData, profile) ==
  LET existing == MapGet(m, id)
  IN  IF existing = <<>> THEN [store |-> m, result |-> <<>>]
      ELSE LET updated == SpreadUpdate(existing[1], updateData)
           IN  [store |-> MapSet(m, id, updated), result |-> <<updated>>]

updateTransaction(m, id, updateData, profile) ==
  LET existing == MapGet(m, id)
  IN  IF existing = <<>> THEN [store |-> m, result |-> <<>>]
      ELSE IF profile # NoStr /\ existing[1].profile # profile
        THEN [store |-> m, result |-> <<>>]
      ELSE LET updated == SpreadUpdate(existing[1], updateData)
           IN  [store |-> MapSet(m, id, updated), result |-> <<updated>>]

deleteTransaction(m, id, profile) ==
  LET transaction == MapGet(m, id)
  IN  IF transaction # <<>> /\ profile # NoStr /\ transaction[1].profile # profile
        THEN [store |-> m, result |-> FALSE]
        ELSE [store |-> MapDelete(m, id), result |-> id \in MapKeys(m)]

deleteTransactionsByParentId(m, parentId, profile) ==
  LET Hit(t) == t.parentTransactionId = parentId
                /\ ~(profile # NoStr /\ t.profile # profile)
  IN  [store |-> SelectSeq(m, LAMBDA t : ~Hit(t)),
       result |-> Cardinality({i \in 1..Len(m) : Hit(m[i])})]

(* clearAllTransactions that deletes nothing *)
clearNoTransactions(m, profile) == m

clearAllTransactions(m, profile) ==
  SelectSeq(m, LAMBDA t : t.profile # profile)

(* getTransactionDate of getSummary *)
getTransactionDate(t) == IF t.dueDate # NoDate THEN t.dueDate ELSE t.createdAt

(* isCurrentMonth that compares the month and not the year *)
isSameMonthOfAnyYear(t, nowv) ==
  LET date == getTransactionDate(t)
  IN  date # BadDate /\ getMonth(date) = getMonth(nowv)

(* getMonth() and getFullYear() of an invalid Date are NaN, which equals   *)
(* nothing and is greater than nothing                                     *)
isCurrentMonth(t, nowv) ==
  LET date == getTransactionDate(t)
  IN  /\ date # BadDate
      /\ getMonth(date) = getMonth(nowv)
      /\ getFullYear(date) = getFullYear(nowv)

(* isFutureMonth that compares the month within the year of the clock *)
isLaterMonthOfTheYear(t, nowv) ==
  LET date == getTransactionDate(t)
  IN  /\ date # BadDate
      /\ getFullYear(date) >= getFullYear(nowv)
      /\ getMonth(date) > getMonth(nowv)

isFutureMonth(t, nowv) ==
  LET date == getTransactionDate(t)
  IN  /\ date # BadDate
      /\ getFullYear(date) * 12 + getMonth(date)
           > getFullYear(nowv) * 12 + getMonth(nowv)

(* reduce((sum, t) => sum + t.amount, 0) *)
RECURSIVE ReduceAmounts(_)
ReduceAmounts(s) ==
  IF s = <<>> THEN 0 ELSE ReduceAmounts(SubSeq(s, 1, Len(s) - 1)) + s[Len(s)].amount

(* getSummary that counts the records of the current month *)
getSummaryOfMonth(m, profile, nowv) ==
  LET txs == SelectSeq(m, LAMBDA t : t.profile = profile)
      totalIncome ==
        ReduceAmounts(SelectSeq(txs, LAMBDA t : t.type = "income" /\ isCurrentMonth(t, nowv)))
      totalExpenses ==
        ReduceAmounts(SelectSeq(txs, LAMBDA t : t.type = "expense" /\ isCurrentMonth(t, nowv)))
      futureExpenses ==
        ReduceAmounts(SelectSeq(txs, LAMBDA t : t.type = "expense" /\ isFutureMonth(t, nowv)))
  IN  [totalIncome |-> totalIncome,
       totalExpenses |-> totalExpenses,
       balance |-> totalIncome - totalExpenses,
       transactionCount |-> Len(SelectSeq(txs, LAMBDA t : isCurrentMonth(t, nowv))),
       futureExpenses |-> futureExpenses]

getSummary(m, profile, nowv) ==
  LET txs == SelectSeq(m, LAMBDA t : t.profile = profile)
      totalIncome ==
        ReduceAmounts(SelectSeq(txs, LAMBDA t : t.type = "income" /\ isCurrentMonth(t, nowv)))
      totalExpenses ==
        ReduceAmounts(SelectSeq(txs, LAMBDA t : t.type = "expense" /\ isCurrentMonth(t, nowv)))
      futureExpenses ==
        ReduceAmounts(SelectSeq(txs, LAMBDA t : t.type = "expense" /\ isFutureMonth(t, nowv)))
  IN  [totalIncome |-> totalIncome,
       totalExpenses |-> totalExpenses,
       balance |-> totalIncome - totalExpenses,
       transactionCount |-> Len(txs),
       futureExpenses |-> futureExpenses]

(***************************************************************************)
(* onedrive.ts: the transactions file of a profile                         *)
(***************************************************************************)
(* no file: the GET of its content answers 404 *)
NoBlob == [exists |-> FALSE, rows |-> <<>>]

(* saveTransactionsToOneDrive: JSON.stringify(transactions) put as content *)
saveTransactionsToOneDrive(txs) == [exists |-> TRUE, rows |-> txs]

(* loadTransactionsFromOneDrive: null on a 404, else the parsed content;   *)
(* the result is <<>> for null and <<rows>> otherwise                      *)
loadTransactionsFromOneDrive(blob) == IF blob.exists THEN <<blob.rows>> ELSE <<>>

(***************************************************************************)
(* routes.ts                                                               *)
(***************************************************************************)
getProfileFromQuery(q) == IF q \in profiles THEN q ELSE "edson"

NoBody == [f \in SchemaFields \cup {"id"} |-> IF f = "id" THEN NoId ELSE AbsentOf[f]]

(* what a handler did: the request, the HTTP status and the response body *)
Response(op, status, profile, id, body, result) ==
  [op |-> op, status |-> status, profile |-> profile, id |-> id,
   body |-> body, result |-> result]

(* GET /api/transactions *)
GetTransactions(q) ==
  LET profile == getProfileFromQuery(q)
  IN  /\ last' = Response("list", 200, profile, NoId, NoBody,
                          getAllTransactions(transactions, profile))
      /\ UNCHANGED <<transactions, nextId, now, cloud, resumo>>

(* GET /api/transactions/:id *)
GetTransaction(q, id) ==
  LET profile == getProfileFromQuery(q)
      transaction == getTransactionById(transactions, id, profile)
  IN  /\ last' = Response("get", IF transaction = <<>> THEN 404 ELSE 200,
                          profile, id, NoBody, transaction)
      /\ UNCHANGED <<transactions, nextId, now, cloud, resumo>>

(* the branch condition of POST /api/transactions *)
IsInstallmentPurchase(data) ==
  /\ data.paymentMethod = "credit_card"
  /\ data.installments # NoNum
  /\ data.installments > 1

SuffixedDescription(description, i, n) ==
  description \o " (" \o ToString(i) \o "/" \o ToString(n) \o ")"

(* installmentDate of the i-th pass of the loop *)
InstallmentDate(data, i, nowv) ==
  LET baseDate == IF data.dueDate # NoDate THEN data.dueDate ELSE nowv
  IN  setMonth(baseDate, getMonth(baseDate) + (i - 1))

InstallmentData(data, i, parentId, nowv) ==
  [data EXCEPT !.amount = MathRound(data.amount, data.installments),
               !.currentInstallment = i,
               !.parentTransactionId = IF i = 1 THEN NoId ELSE parentId,
               !.createdAt = nowv,
               !.dueDate = InstallmentDate(data, i, nowv),
               !.description = SuffixedDescription(data.description, i, data.installments)]

(* the passes of the loop that run to their end: toISOString() of an       *)
(* invalid Date throws a RangeError, which ends the loop                   *)
CompletedInstallments(data, nowv) ==
  LET thrown == {i \in 1..data.installments : InstallmentDate(data, i, nowv) = BadDate}
  IN  IF thrown = {} THEN data.installments
      ELSE (CHOOSE i \in thrown : \A j \in thrown : i <= j) - 1

(* the records the passes 1..k of the loop hand to the store: pass 1 under *)
(* parentId, pass i > 1 under the i-th generated id                        *)
LoopTransactions(data, k, parentId, profile, nowv) ==
  [i \in 1..k |->
     NewTransaction(parentId + (i - 1), InstallmentData(data, i, parentId, nowv),
                    profile, nowv)]

(* POST /api/transactions *)
PostTransaction(q, b) ==
  LET profile == getProfileFromQuery(q)
      data == ParsedData(b)
  IN  /\ UNCHANGED <<now, cloud, resumo>>
      /\ IF ~insertTransactionSchema(b)
           THEN /\ last' = Response("create", 400, profile, NoId, b, <<>>)
                /\ UNCHANGED <<transactions, nextId>>
         ELSE IF IsInstallmentPurchase(data)
           THEN LET parentId == nextId
                    k == CompletedInstallments(data, now)
                    created == LoopTransactions(data, k, parentId, profile, now)
                    store == MapSetEach(transactions, created)
                    failed == k < data.installments
                IN  /\ transactions' = store
                    /\ nextId' = nextId + (IF k = 0 THEN 1 ELSE k)
                    /\ last' = Response("create", IF failed THEN 500 ELSE 201,
                                        profile, parentId, b,
                                        IF failed THEN <<>> ELSE created)
           ELSE LET created == createTransaction(
                                 transactions, nextId,
                                 [data EXCEPT !.installments = 1,
                                              !.currentInstallment = 1],
                                 profile, now)
                IN  /\ transactions' = created.store
                    /\ nextId' = nextId + 1
                    /\ last' = Response("create", 201, profile, nextId, b,
                                        created.result)

(* PUT /api/transactions/:id *)
PutTransaction(q, id, b) ==
  LET profile == getProfileFromQuery(q)
      updated == updateTransaction(transactions, id, ParsedData(b), profile)
  IN  /\ UNCHANGED <<nextId, now, cloud, resumo>>
      /\ IF ~updateTransactionSchema(b)
           THEN /\ last' = Response("update", 400, profile, id, b, <<>>)
                /\ UNCHANGED transactions
           ELSE /\ transactions' = updated.store
                /\ last' = Response("update",
                                    IF updated.result = <<>> THEN 404 ELSE 200,
                                    profile, id, b, updated.result)

(* DELETE /api/transactions/:id *)
DeleteTransaction(q, id) ==
  LET profile == getProfileFromQuery(q)
      transaction == getTransactionById(transactions, id, profile)
  IN  /\ UNCHANGED <<nextId, now, cloud, resumo>>
      /\ IF transaction = <<>>
           THEN /\ last' = Response("delete", 404, profile, id, NoBody, <<>>)
                /\ UNCHANGED transactions
           ELSE LET t == transaction[1]
                    cascade == /\ t.installments # NoNum
                               /\ t.installments > 1
                               /\ t.parentTransactionId = NoId
                    afterChildren ==
                      IF cascade
                        THEN deleteTransactionsByParentId(transactions, id, profile).store
                        ELSE transactions
                    deleted == deleteTransaction(afterChildren, id, profile)
                IN  /\ transactions' = deleted.store
                    /\ last' = Response("delete",
                                        IF deleted.result THEN 204 ELSE 404,
                                        profile, id, NoBody, <<>>)

(* GET /api/summary *)
GetSummary(q) ==
  LET profile == getProfileFromQuery(q)
  IN  /\ last' = Response("summary", 200, profile, NoId, NoBody,
                          getSummary(transactions, profile, now))
      /\ UNCHANGED <<transactions, nextId, now, cloud, resumo>>

(* a JSON null among the elements of an array *)
NullRow == [NoBody EXCEPT !.type = "null"]

(* the rows of a batch ahead of the first one that fails                   *)
(* insertTransactionSchema.safeParse                                       *)
ParsedRowsUntilFailure(rows) ==
  LET Bad(i) == rows[i] = NullRow \/ ~insertTransactionSchema(rows[i])
      bad == {i \in 1..Len(rows) : Bad(i)}
  IN  IF bad = {} THEN rows
      ELSE SubSeq(rows, 1, (CHOOSE i \in bad : \A j \in bad : i <= j) - 1)

(* the rows of a batch that pass insertTransactionSchema.safeParse *)
ParsedRows(rows) ==
  SelectSeq(rows, LAMBDA t : t # NullRow /\ insertTransactionSchema(t))

(* the loop of POST /api/import over an array, run on the store m; fresh   *)
(* is the next id randomUUID() hands out                                   *)
ImportOutcome(m, batch, profile, fresh, nowv) ==
  LET parsed == ParsedRows(batch)
      imported == [i \in 1..Len(parsed) |->
                     NewTransaction(fresh + (i - 1), ParsedData(parsed[i]), profile, nowv)]
  IN  [store |-> MapSetAll(m, imported), imported |-> imported]

(* POST /api/import; the body is an array *)
PostImport(q, batch) ==
  LET profile == getProfileFromQuery(q)
      outcome == ImportOutcome(transactions, batch, profile, nextId, now)
  IN  /\ transactions' = outcome.store
      /\ nextId' = nextId + Len(outcome.imported)
      /\ last' = Response("import", 201, profile, NoId, batch,
                          [imported |-> Len(outcome.imported),
                           transactions |-> outcome.imported])
      /\ UNCHANGED <<now, cloud, resumo>>

(* POST /api/onedrive/backup *)
PostBackup(q) ==
  LET profile == getProfileFromQuery(q)
      txs == getAllTransactions(transactions, profile)
  IN  /\ cloud' = [cloud EXCEPT ![profile] = saveTransactionsToOneDrive(txs)]
      /\ last' = Response("backup", 200, profile, NoId, NoBody, [count |-> Len(txs)])
      /\ UNCHANGED <<transactions, nextId, now, resumo>>

(* the two passes without the fall back to the original                   *)
(* parentTransactionId of a child whose parent is not in the file          *)
RestoreRowsNoFallback(m, rows, profile, fresh, nowv) ==
  LET parentTransactions == SelectSeq(rows, LAMBDA t : t.parentTransactionId = NoId)
      childTransactions == SelectSeq(rows, LAMBDA t : t.parentTransactionId # NoId)
      parents == SelectSeq(parentTransactions,
                           LAMBDA t : insertTransactionSchema(t) /\ t.id # NoId)
      createdParents == [i \in 1..Len(parents) |->
                           NewTransaction(parents[i].id, ParsedData(parents[i]), profile, nowv)]
      idMap == [o \in {parents[i].id : i \in 1..Len(parents)} |->
                  (CHOOSE i \in 1..Len(parents) : parents[i].id = o)]
      children == SelectSeq(childTransactions, insertTransactionSchema)
      NewParentId(t) ==
        IF t.parentTransactionId \in DOMAIN idMap
          THEN createdParents[idMap[t.parentTransactionId]].id
          ELSE NoId
      createdChildren ==
        [i \in 1..Len(children) |->
           NewTransaction(fresh + (i - 1),
                          [ParsedData(children[i]) EXCEPT
                             !.parentTransactionId = NewParentId(children[i])],
                          profile, nowv)]
  IN  [store |-> MapSetAll(MapSetAll(m, createdParents), createdChildren),
       imported |-> Len(parents) + Len(children),
       generated |-> Len(children)]

(* the two passes of POST /api/onedrive/restore over the rows of the file, *)
(* run on the store m; fresh is the next id randomUUID() hands out         *)
RestoreRows(m, rows, profile, fresh, nowv) ==
  LET parentTransactions == SelectSeq(rows, LAMBDA t : t.parentTransactionId = NoId)
      childTransactions == SelectSeq(rows, LAMBDA t : t.parentTransactionId # NoId)
      parents == SelectSeq(parentTransactions,
                           LAMBDA t : insertTransactionSchema(t) /\ t.id # NoId)
      createdParents == [i \in 1..Len(parents) |->
                           NewTransaction(parents[i].id, ParsedData(parents[i]), profile, nowv)]
      idMap == [o \in {parents[i].id : i \in 1..Len(parents)} |->
                  (CHOOSE i \in 1..Len(parents) : parents[i].id = o)]
      children == SelectSeq(childTransactions, insertTransactionSchema)
      NewParentId(t) ==
        IF t.parentTransactionId \in DOMAIN idMap
          THEN createdParents[idMap[t.parentTransactionId]].id
          ELSE t.parentTransactionId
      createdChildren ==
        [i \in 1..Len(children) |->
           NewTransaction(fresh + (i - 1),
                          [ParsedData(children[i]) EXCEPT
                             !.parentTransactionId = NewParentId(children[i])],
                          profile, nowv)]
  IN  [store |-> MapSetAll(MapSetAll(m, createdParents), createdChildren),
       imported |-> Len(parents) + Len(children),
       generated |-> Len(children)]

(* POST /api/onedrive/restore with clearAllTransactions ahead of the check *)
(* for an absent or empty file                                             *)
RestoreOutcomeClearFirst(m, blob, profile, fresh, nowv) ==
  LET cloudTransactions == loadTransactionsFromOneDrive(blob)
      cleared == clearAllTransactions(m, profile)
  IN  IF cloudTransactions = <<>> \/ cloudTransactions[1] = <<>>
        THEN [store |-> cleared, status |-> 404, imported |-> 0, generated |-> 0,
              deleted |-> {}]
      ELSE LET rows == cloudTransactions[1]
           IN  IF \E i \in 1..Len(rows) : rows[i] = NullRow
                 THEN [store |-> cleared, status |-> 500, imported |-> 0, generated |-> 0,
                       deleted |-> MapKeys(m) \ MapKeys(cleared)]
                 ELSE LET done == RestoreRows(cleared, rows, profile, fresh, nowv)
                      IN  [store |-> done.store, status |-> 200,
                           imported |-> done.imported, generated |-> done.generated,
                           deleted |-> MapKeys(m) \ MapKeys(cleared)]

(* POST /api/onedrive/restore on the store m and the file blob: the store, *)
(* the status and the count of the answer, the number of ids generated and *)
(* the keys that clearAllTransactions deleted; reading parentTransactionId *)
(* of a null row throws a TypeError                                        *)
RestoreOutcome(m, blob, profile, fresh, nowv) ==
  LET cloudTransactions == loadTransactionsFromOneDrive(blob)
  IN  IF cloudTransactions = <<>> \/ cloudTransactions[1] = <<>>
        THEN [store |-> m, status |-> 404, imported |-> 0, generated |-> 0,
              deleted |-> {}]
      ELSE LET rows == cloudTransactions[1]
               cleared == clearAllTransactions(m, profile)
           IN  IF \E i \in 1..Len(rows) : rows[i] = NullRow
                 THEN [store |-> cleared, status |-> 500, imported |-> 0, generated |-> 0,
                       deleted |-> MapKeys(m) \ MapKeys(cleared)]
                 ELSE LET done == RestoreRows(cleared, rows, profile, fresh, nowv)
                      IN  [store |-> done.store, status |-> 200,
                           imported |-> done.imported, generated |-> done.generated,
                           deleted |-> MapKeys(m) \ MapKeys(cleared)]

(* POST /api/onedrive/restore when the read of the file fails and the      *)
(* failure is taken for a missing file                                     *)
RestoreReadFailedAsNotFound(m, profile) ==
  [store |-> m, status |-> 404, imported |-> 0, generated |-> 0, deleted |-> {}]

(* POST /api/onedrive/restore when loadTransactionsFromOneDrive throws (no  *)
(* connection, a status other than 404, content that is not JSON): the     *)
(* catch of the handler answers 500                                        *)
RestoreReadFailed(m, profile) ==
  [store |-> m, status |-> 500, imported |-> 0, generated |-> 0, deleted |-> {}]

(* POST /api/onedrive/restore; a 404 and a 500 carry no count.  Next to    *)
(* the response body, result records the keys the handler deleted.         *)
PostRestore(q) ==
  LET profile == getProfileFromQuery(q)
      outcome == RestoreOutcome(transactions, cloud[profile], profile, nextId, now)
  IN  /\ transactions' = outcome.store
      /\ nextId' = nextId + outcome.generated
      /\ last' = Response("restore", outcome.status, profile, NoId, NoBody,
                          IF outcome.status = 200
                            THEN [count |-> outcome.imported, deleted |-> outcome.deleted]
                            ELSE [error |-> TRUE, deleted |-> outcome.deleted])
      /\ UNCHANGED <<now, cloud, resumo>>

(* POST /api/onedrive/restore while OneDrive cannot be read; result also   *)
(* records that the read failed                                            *)
PostRestoreUnreachable(q) ==
  LET profile == getProfileFromQuery(q)
      outcome == RestoreReadFailed(transactions, profile)
  IN  /\ transactions' = outcome.store
      /\ nextId' = nextId + outcome.generated
      /\ last' = Response("restore", outcome.status, profile, NoId, NoBody,
                          [error |-> TRUE, deleted |-> outcome.deleted, read |-> "failed"])
      /\ UNCHANGED <<now, cloud, resumo>>

(***************************************************************************)
(* client/src/components/import-export.tsx: the import of a sheet          *)
(*  - A sheet is the sequence of its rows, a row the record of its cells   *)
(*    Tipo, Valor, Descricao, Categoria, MeioDePagamento, OperadoraBanco,  *)
(*    Parcelas, ParcelaAtual and Data; an empty text cell is "", an empty  *)
(*    number cell NoNum.  The cell Data is [format, parts]: a number    *)
(*    (format "serial", the Excel serial), a text d/m/y ("br"), a text    *)
(*    y-m-d ("iso"), another text ("text") or nothing ("empty").          *)
(*  - A day YYYY-MM-DD is the tuple <<year, month, day>>, "" is <<>>.      *)
(*  - A fingerprint (the fields joined with "|") is the tuple of the       *)
(*    fields.                                                              *)
(***************************************************************************)
(* the labels of the cells of the sheets of the model *)
reverseTransactionTypeLabels == [Receita |-> "income", Despesa |-> "expense"]

reverseIncomeCategoryLabels == [Freelance |-> "freelance", Aluguel |-> "rent"]

reverseExpenseCategoryLabels == [Contas |-> "bills", Moradia |-> "housing"]

reversePaymentMethodLabels == [PIX |-> "pix", Dinheiro |-> "cash"]

reverseCardOperatorLabels == [Nubank |-> "nubank", Bradesco |-> "bradesco"]

(* labels[cell] || cell || default *)
LabelOr(labels, cell, default) ==
  IF cell \in DOMAIN labels THEN labels[cell] ELSE IF cell # "" THEN cell ELSE default

(* new Date(excelEpoch.getTime() + dateValue * 86400000).toISOString()     *)
(* .split("T")[0] with excelEpoch = new Date(1899, 11, 30), 25569 days     *)
(* ahead of 1 January 1970: the day of the proleptic Gregorian calendar    *)
ExcelSerialDay(serial) ==
  LET z == (serial - 25569) + 719468
      era == z \div 146097
      doe == z - era * 146097
      yoe == (doe - doe \div 1460 + doe \div 36524 - doe \div 146096) \div 365
      doy == doe - (365 * yoe + yoe \div 4 - yoe \div 100)
      mp == (5 * doy + 2) \div 153
      day == doy - (153 * mp + 2) \div 5 + 1
      month == IF mp < 10 THEN mp + 3 ELSE mp - 9
      year == yoe + era * 400 + (IF month <= 2 THEN 1 ELSE 0)
  IN  <<year, month, day>>

(* parseExcelDate: "" for an empty cell and the number 0, the day of a     *)
(* serial, the parts of d/m/y turned round (not checked against the        *)
(* calendar), the first ten characters of y-m-d, "" for any other text     *)
parseExcelDate(dateValue) ==
  CASE dateValue.format = "serial" ->
         IF dateValue.parts[1] = 0 THEN <<>> ELSE ExcelSerialDay(dateValue.parts[1])
    [] dateValue.format = "br" ->
         <<dateValue.parts[3], dateValue.parts[2], dateValue.parts[1]>>
    [] dateValue.format = "iso" -> dateValue.parts
    [] OTHER -> <<>>

(* formatDateKey: the day YYYY-MM-DD of a date, "" when absent or          *)
(* unparseable                                                             *)
formatDateKey(date) ==
  IF date = NoDate \/ date = BadDate THEN <<>>
  ELSE <<getFullYear(date), getMonth(date) + 1, getDate(date)>>

(* toLowerCase().trim() on the descriptions of the model *)
LowerTrim(description) ==
  CASE description = "Mercado " -> "mercado"
    [] description = " mercado" -> "mercado"
    [] OTHER -> description

(* amount.toFixed(2): the units and the two digits of the cents *)
toFixed2(amount) == <<amount \div 100, amount % 100>>

getTransactionKey(item) ==
  <<item.type, toFixed2(item.amount), LowerTrim(item.description), item.category,
    item.paymentMethod,
    IF item.cardOperator = NoStr THEN "" ELSE item.cardOperator,
    IF item.installments \in {NoNum, 0} THEN 1 ELSE item.installments,
    IF item.currentInstallment \in {NoNum, 0} THEN 1 ELSE item.currentInstallment,
    item.dateKey>>

(* the item that isDuplicateTransaction builds from a stored record *)
ExistingItem(t) ==
  [type |-> t.type, amount |-> t.amount, description |-> t.description,
   category |-> t.category, paymentMethod |-> t.paymentMethod,
   cardOperator |-> t.cardOperator,
   installments |-> IF t.installments \in {NoNum, 0} THEN 1 ELSE t.installments,
   currentInstallment |->
     IF t.currentInstallment \in {NoNum, 0} THEN 1 ELSE t.currentInstallment,
   dateKey |-> formatDateKey(t.createdAt)]

isDuplicateTransaction(item, existing) ==
  \E i \in 1..Len(existing) :
    getTransactionKey(ExistingItem(existing[i])) = getTransactionKey(item)

(* the ImportItem of a row of the sheet, ahead of its isDuplicate *)
ImportItem(row) ==
  LET type == LabelOr(reverseTransactionTypeLabels, row.Tipo, "expense")
  IN  [type |-> type,
       amount |-> IF row.Valor = NoNum THEN 0 ELSE row.Valor,
       description |-> row.Descricao,
       category |-> IF type = "income"
                      THEN LabelOr(reverseIncomeCategoryLabels, row.Categoria, "other_income")
                      ELSE LabelOr(reverseExpenseCategoryLabels, row.Categoria, "other_expense"),
       paymentMethod |-> LabelOr(reversePaymentMethodLabels, row.MeioDePagamento, "pix"),
       cardOperator |-> IF row.OperadoraBanco = "" THEN NoStr
                        ELSE LabelOr(reverseCardOperatorLabels, row.OperadoraBanco, NoStr),
       installments |-> IF row.Parcelas \in {NoNum, 0} THEN 1 ELSE row.Parcelas,
       currentInstallment |-> IF row.ParcelaAtual \in {NoNum, 0} THEN 1 ELSE row.ParcelaAtual,
       dateKey |-> parseExcelDate(row.Data)]

WithDuplicate(item, isDuplicate) ==
  [f \in DOMAIN item \cup {"isDuplicate"} |->
     IF f = "isDuplicate" THEN isDuplicate ELSE item[f]]

(* seenInFile that never takes a key in *)
SeenInFileUnchanged(seenInFile, itemKey, isDuplicate) == seenInFile

(* seenInFile after a row: seenInFile.add(itemKey) for a row that is not a *)
(* duplicate                                                               *)
SeenInFileAfter(seenInFile, itemKey, isDuplicate) ==
  IF isDuplicate THEN seenInFile ELSE seenInFile \cup {itemKey}

(* jsonData.map of handleFileSelect, with the set seenInFile so far *)
RECURSIVE ParsedDataOf(_, _, _)
ParsedDataOf(rows, existing, seenInFile) ==
  IF rows = <<>> THEN <<>>
  ELSE LET item == ImportItem(rows[1])
           itemKey == getTransactionKey(item)
           isDuplicate == itemKey \in seenInFile \/ isDuplicateTransaction(item, existing)
       IN  <<WithDuplicate(item, isDuplicate)>>
             \o ParsedDataOf(Tail(rows), existing,
                             SeenInFileAfter(seenInFile, itemKey, isDuplicate))

(* handleFileSelect with the list of the profile loaded and up to date:    *)
(* the preview of the dialog                                               *)
HandleFileSelect(profile, sheet) ==
  LET existingTransactions == getAllTransactions(transactions, profile)
  IN  /\ last' = Response("preview", 0, profile, NoId, sheet,
                          [importPreview |-> ParsedDataOf(sheet, existingTransactions, {})])
      /\ UNCHANGED <<transactions, nextId, now, cloud, resumo>>

(* JSON.stringify of an ImportItem as POST /api/import reads it: zod strips *)
(* dateKey and isDuplicate, an undefined cardOperator is not sent          *)
ItemBody(item) ==
  [NoBody EXCEPT !.type = item.type, !.amount = item.amount,
                 !.description = item.description, !.category = item.category,
                 !.paymentMethod = item.paymentMethod, !.cardOperator = item.cardOperator,
                 !.installments = item.installments,
                 !.currentInstallment = item.currentInstallment]

(* confirmImport on the open dialog: the items that are not duplicates go  *)
(* to POST /api/import; with none of them the dialog closes                *)
ConfirmImport ==
  LET profile == last.profile
      itemsToImport == SelectSeq(last.result.importPreview, LAMBDA item : ~item.isDuplicate)
      data == [i \in 1..Len(itemsToImport) |-> ItemBody(itemsToImport[i])]
      outcome == ImportOutcome(transactions, data, profile, nextId, now)
  IN  /\ last.op = "preview"
      /\ UNCHANGED <<now, cloud, resumo>>
      /\ IF itemsToImport = <<>>
           THEN /\ last' = Response("confirm", 0, profile, NoId, last.body,
                                    [importPreview |-> <<>>])
                /\ UNCHANGED <<transactions, nextId>>
           ELSE /\ transactions' = outcome.store
                /\ nextId' = nextId + Len(outcome.imported)
                /\ last' = Response("confirm", 201, profile, NoId, last.body,
                                    [imported |-> Len(outcome.imported),
                                     transactions |-> outcome.imported])

(***************************************************************************)
(* client/src/pages (Resumo): the button Salvar of the page Resumo         *)
(*  - resumo is the state of the page: isSaving, the seconds elapsed on    *)
(*    the timer of the running handleSave, the description of the last     *)
(*    toast, and the backup requests in flight, oldest first; a request is *)
(*    [profile, state]: "sent", or answered "ok" or "failed" with the      *)
(*    answer not yet delivered.  While isSaving holds, the last request is *)
(*    the one Promise.race waits for; the others were given up by a        *)
(*    timeout and still run.                                               *)
(*  - A request the server answers with 500 rejects the mutation           *)
(*    (apiRequest of client/src/lib/queryClient).                          *)
(*  - The texts of the toasts are written without their accents.           *)
(***************************************************************************)
SaveTimeout == 10

SuccessDescription == "Seus dados foram salvos no OneDrive."

TimeoutDescription == "O backup demorou muito. Tente novamente mais tarde."

FailureDescription == "Nao foi possivel fazer backup."

ResumoInit ==
  [isSaving |-> FALSE, elapsed |-> 0, toast |-> NoStr, requests |-> <<>>]

(* one description for every error *)
ErrorMessageOfFailure(message) == FailureDescription

(* error?.message === "Timeout" ? ... : ... *)
ErrorMessage(message) ==
  IF message = "Timeout" THEN TimeoutDescription ELSE FailureDescription

RemoveAt(seq, i) == SubSeq(seq, 1, i - 1) \o SubSeq(seq, i + 1, Len(seq))

(* handleSave up to the await: the button is disabled while isSaving *)
HandleSave(profile) ==
  /\ ~resumo.isSaving
  /\ resumo' = [resumo EXCEPT
                  !.isSaving = TRUE, !.elapsed = 0,
                  !.requests = Append(@, [profile |-> profile, state |-> "sent"])]
  /\ UNCHANGED <<transactions, last, nextId, now, cloud>>

(* POST /api/onedrive/backup serves the request i and answers 200 *)
BackupServed(i) ==
  LET profile == getProfileFromQuery(resumo.requests[i].profile)
      txs == getAllTransactions(transactions, profile)
  IN  /\ resumo.requests[i].state = "sent"
      /\ cloud' = [cloud EXCEPT ![profile] = saveTransactionsToOneDrive(txs)]
      /\ last' = Response("backup", 200, profile, NoId, NoBody, [count |-> Len(txs)])
      /\ resumo' = [resumo EXCEPT !.requests[i].state = "ok"]
      /\ UNCHANGED <<transactions, nextId, now>>

(* POST /api/onedrive/backup while saveTransactionsToOneDrive throws: 500 *)
BackupUnreachable(i) ==
  LET profile == getProfileFromQuery(resumo.requests[i].profile)
  IN  /\ resumo.requests[i].state = "sent"
      /\ last' = Response("backup", 500, profile, NoId, NoBody, [error |-> TRUE])
      /\ resumo' = [resumo EXCEPT !.requests[i].state = "failed"]
      /\ UNCHANGED <<transactions, nextId, now, cloud>>

(* the answer to the request i is delivered: when handleSave waits for it, *)
(* the await resumes, the toast is shown and finally clears isSaving       *)
ResponseArrives(i) ==
  LET request == resumo.requests[i]
      awaited == resumo.isSaving /\ i = Len(resumo.requests)
  IN  /\ request.state \in {"ok", "failed"}
      /\ resumo' =
           IF awaited
             THEN [resumo EXCEPT
                     !.requests = RemoveAt(@, i), !.isSaving = FALSE, !.elapsed = 0,
                     !.toast = IF request.state = "ok" THEN SuccessDescription
                               ELSE ErrorMessage("500: Erro ao fazer backup no OneDrive")]
             ELSE [resumo EXCEPT !.requests = RemoveAt(@, i)]
      /\ UNCHANGED <<transactions, last, nextId, now, cloud>>

(* a second goes by on the timer of the running handleSave *)
Tick ==
  /\ resumo.isSaving /\ resumo.elapsed < SaveTimeout
  /\ resumo' = [resumo EXCEPT !.elapsed = @ + 1]
  /\ UNCHANGED <<transactions, last, nextId, now, cloud>>

(* setTimeout fires after 10000 ms: reject(new Error("Timeout")) settles   *)
(* the race, the request goes on without a listener                        *)
TimerFires ==
  /\ resumo.isSaving /\ resumo.elapsed = SaveTimeout
  /\ resumo' = [resumo EXCEPT !.isSaving = FALSE, !.elapsed = 0,
                              !.toast = ErrorMessage("Timeout")]
  /\ UNCHANGED <<transactions, last, nextId, now, cloud>>

(***************************************************************************)
(* Requests                                                                *)
(***************************************************************************)
MaxId == 3

MaxN == 3

Today == (2024 * 12 + 0) * 100 + 31

Queries == {"tais", "outro"}

BaseBody ==
  [NoBody EXCEPT !.type = "expense", !.amount = 100, !.description = "mercado",
                 !.paymentMethod = "pix", !.category = "food"]

(* a body that carries linkage fields names an installment position, a    *)
(* parent and a profile of its own                                         *)
CreateBody(a, pm, n, carries) ==
  [BaseBody EXCEPT !.amount = a, !.paymentMethod = pm, !.installments = n,
                   !.currentInstallment = IF carries THEN 2 ELSE NoNum,
                   !.parentTransactionId = IF carries THEN 1 ELSE NoId,
                   !.profile = IF carries THEN "tais" ELSE NoStr]

CreateBodies ==
  {CreateBody(100, "pix", NoNum, FALSE), CreateBody(100, "pix", MaxN, TRUE),
   CreateBody(100, "credit_card", NoNum, FALSE), CreateBody(100, "credit_card", 1, FALSE),
   CreateBody(0, "pix", NoNum, FALSE)}
  \cup {CreateBody(100, "credit_card", n, TRUE) : n \in 2..MaxN}

(* a patch that names every kind of field, and one the schema rejects *)
UpdateBodies ==
  {[NoBody EXCEPT !.id = 2, !.amount = 50, !.profile = "tais", !.installments = 1,
                  !.currentInstallment = 3, !.parentTransactionId = 2],
   [NoBody EXCEPT !.amount = 0]}

(* the ids a request generates *)
IdsNeeded(b) ==
  IF insertTransactionSchema(b) /\ IsInstallmentPurchase(b) THEN b.installments ELSE 1

Init ==
  /\ transactions = <<>>
  /\ last = Response("init", 0, NoStr, NoId, NoBody, <<>>)
  /\ nextId = 1
  /\ now = Today
  /\ cloud = [p \in profiles |-> NoBlob]
  /\ resumo = ResumoInit

Next ==
  \/ \E q \in Queries : GetTransactions(q)
  \/ \E q \in Queries, id \in 1..nextId : GetTransaction(q, id)
  \/ \E q \in Queries, b \in CreateBodies :
       nextId + IdsNeeded(b) - 1 <= MaxId /\ PostTransaction(q, b)
  \/ \E q \in Queries, id \in 1..nextId, b \in UpdateBodies : PutTransaction(q, id, b)
  \/ \E q \in Queries, id \in 1..nextId : DeleteTransaction(q, id)

Spec == Init /\ [][Next]_vars

(***************************************************************************)
(* Installment expansion on its own: one purchase into an empty ledger,    *)
(* over totals 1..MaxTotal cents, every installment count the schema       *)
(* allows and base dates at month ends, at a year end, unparseable, absent *)
(* and the last day a Date can hold.                                       *)
(***************************************************************************)
MaxTotal == 40

Date(year, month, day) == (year * 12 + (month - 1)) * 100 + day

BaseDates ==
  {NoDate, BadDate, Date(2024, 1, 31), Date(2023, 1, 31), Date(2024, 11, 30),
   Date(2024, 5, 15), MaxTime}

PurchaseBody(a, n, due) ==
  [BaseBody EXCEPT !.amount = a, !.paymentMethod = "credit_card",
                   !.installments = n, !.dueDate = due]

ExpandBodies ==
  {PurchaseBody(a, n, Date(2024, 1, 31)) : a \in 1..MaxTotal, n \in 2..MaxInstallments}
  \cup {PurchaseBody(12000, n, due) : n \in 2..MaxInstallments, due \in BaseDates}

NextExpand ==
  \E q \in Queries, b \in ExpandBodies : nextId = 1 /\ PostTransaction(q, b)

SpecExpand == Init /\ [][NextExpand]_vars

(***************************************************************************)
(* Backup and restore: purchases, backups and restores of both profiles,   *)
(* and the user's OneDrive, where the file of tais can be replaced by a    *)
(* copy of the file of edson or by content written by hand.                *)
(***************************************************************************)
MaxRestoreId == 3

(* a row of a file that this server did not write; its ids are not ids of  *)
(* this server                                                             *)
Row(id, parent, amount) ==
  [BaseBody EXCEPT !.id = id, !.parentTransactionId = parent, !.amount = amount,
                   !.installments = 1, !.currentInstallment = 1,
                   !.createdAt = Today, !.profile = "edson"]

(* an empty array; a first installment and its child; a child whose parent *)
(* is not in the file; a row the schema rejects before a valid one; a row  *)
(* without id; a null among the rows; two rows under one id                *)
ForeignSnapshots ==
  {<<>>,
   <<Row(11, NoId, 100), Row(12, 11, 100)>>,
   <<Row(12, 13, 100)>>,
   <<Row(11, NoId, 0), Row(12, NoId, 100)>>,
   <<Row(NoId, NoId, 100)>>,
   <<Row(11, NoId, 100), NullRow>>,
   <<Row(11, NoId, 100), Row(11, NoId, 200)>>}

(* the file of profile p is replaced from outside the server *)
CloudWrite(p, rows) ==
  /\ cloud' = [cloud EXCEPT ![p] = [exists |-> TRUE, rows |-> rows]]
  /\ last' = Response("cloud", 0, p, NoId, NoBody, <<>>)
  /\ UNCHANGED <<transactions, nextId, now, resumo>>

(* a single record, a purchase in two installments and a purchase of one   *)
(* cent in three installments                                              *)
RestoreBodies ==
  {CreateBody(100, "pix", NoNum, FALSE), CreateBody(100, "credit_card", 2, FALSE),
   CreateBody(1, "credit_card", 3, FALSE)}

(* the ids a restore generates *)
IdsOfRestore(q) ==
  RestoreOutcome(transactions, cloud[getProfileFromQuery(q)],
                 getProfileFromQuery(q), nextId, now).generated

NextRestore ==
  \/ \E q \in Queries, b \in RestoreBodies :
       nextId + IdsNeeded(b) - 1 <= MaxRestoreId /\ PostTransaction(q, b)
  \/ \E q \in Queries : PostBackup(q)
  \/ \E q \in Queries : nextId + IdsOfRestore(q) - 1 <= MaxRestoreId /\ PostRestore(q)
  \/ \E rows \in ForeignSnapshots : CloudWrite("tais", rows)
  \/ cloud["edson"].exists /\ CloudWrite("tais", cloud["edson"].rows)

SpecRestore == Init /\ [][NextRestore]_vars

(***************************************************************************)
(* Backup and restore with outages: the requests of SpecRestore, and       *)
(* restores at moments when OneDrive cannot be read.                       *)
(***************************************************************************)
NextOutage ==
  \/ NextRestore
  \/ \E q \in Queries : PostRestoreUnreachable(q)

SpecOutage == Init /\ [][NextOutage]_vars

(***************************************************************************)
(* Server-side import next to creates, updates and deletes: batches with   *)
(* a row the schema rejects and a null between valid rows, a row that      *)
(* names an installment position past its installments, and a row that     *)
(* names a parent.                                                         *)
(***************************************************************************)
MaxImportId == 3

ImportRow(amount, installments, currentInstallment, parent) ==
  [BaseBody EXCEPT !.amount = amount, !.installments = installments,
                   !.currentInstallment = currentInstallment,
                   !.parentTransactionId = parent]

ServerBatches ==
  {<<ImportRow(100, 1, 1, NoId), ImportRow(0, 1, 1, NoId), NullRow, ImportRow(200, 1, 3, NoId)>>,
   <<ImportRow(100, 2, 2, 9)>>,
   <<ImportRow(0, 1, 1, NoId)>>}

ImportCreateBodies ==
  {CreateBody(100, "pix", NoNum, FALSE), CreateBody(100, "credit_card", 2, FALSE)}

NextImport ==
  \/ \E q \in Queries, b \in ImportCreateBodies :
       nextId + IdsNeeded(b) - 1 <= MaxImportId /\ PostTransaction(q, b)
  \/ \E q \in Queries, id \in 1..nextId, b \in UpdateBodies : PutTransaction(q, id, b)
  \/ \E q \in Queries, id \in 1..nextId : DeleteTransaction(q, id)
  \/ \E q \in Queries, batch \in ServerBatches :
       nextId + Len(ParsedRows(batch)) - 1 <= MaxImportId /\ PostImport(q, batch)

SpecImport == Init /\ [][NextImport]_vars

(***************************************************************************)
(* The import of a sheet: the dialog is opened on a sheet and confirmed,   *)
(* for both profiles, next to creates with and without a dueDate.  The     *)
(* sheets: twice the same row dated today; a row dated 15 January 2024,    *)
(* its description in another case; a row of empty cells; an income with   *)
(* labels, installments and no date.                                       *)
(***************************************************************************)
MaxPreviewId == 3

(* the cell Data: nothing, an Excel serial, the texts d/m/y and y-m-d *)
EmptyCell == [format |-> "empty", parts |-> <<>>]

SerialCell(serial) == [format |-> "serial", parts |-> <<serial>>]

BrCell(day, month, year) == [format |-> "br", parts |-> <<day, month, year>>]

IsoCell(year, month, day) == [format |-> "iso", parts |-> <<year, month, day>>]

SheetRow(description, amount, date) ==
  [Tipo |-> "Despesa", Valor |-> amount, Descricao |-> description, Categoria |-> "food",
   MeioDePagamento |-> "PIX", OperadoraBanco |-> "", Parcelas |-> 1, ParcelaAtual |-> 1,
   Data |-> date]

EmptyRow ==
  [Tipo |-> "", Valor |-> NoNum, Descricao |-> "", Categoria |-> "",
   MeioDePagamento |-> "", OperadoraBanco |-> "", Parcelas |-> NoNum, ParcelaAtual |-> NoNum,
   Data |-> EmptyCell]

(* 31/01/2024 is today as handleExport writes it; 45306 is the serial of   *)
(* 15 January 2024                                                         *)
Sheets ==
  {<<SheetRow("mercado", 100, BrCell(31, 1, 2024)),
     SheetRow("mercado", 100, BrCell(31, 1, 2024))>>,
   <<SheetRow("Mercado ", 100, SerialCell(45306))>>,
   <<EmptyRow, SheetRow("mercado", 100, IsoCell(2024, 1, 31))>>,
   <<[SheetRow("freela", 300, EmptyCell) EXCEPT
        !.Tipo = "Receita", !.Categoria = "Freelance", !.MeioDePagamento = "Dinheiro",
        !.OperadoraBanco = "Nubank", !.Parcelas = 2, !.ParcelaAtual = 2]>>}

(* a single record without dueDate and one due on 15 January 2024 *)
PreviewBodies ==
  {CreateBody(100, "pix", NoNum, FALSE),
   [CreateBody(100, "pix", NoNum, FALSE) EXCEPT !.dueDate = Date(2024, 1, 15)]}

NextPreview ==
  \/ \E q \in Queries, b \in PreviewBodies :
       nextId + IdsNeeded(b) - 1 <= MaxPreviewId /\ PostTransaction(q, b)
  \/ \E p \in profiles, sheet \in Sheets : HandleFileSelect(p, sheet)
  \/ ConfirmImport /\ nextId' - 1 <= MaxPreviewId

SpecPreview == Init /\ [][NextPreview]_vars

(***************************************************************************)
(* The summary: records of both types dated in the month of the clock, in  *)
(* past and future months, in the same month of another year and with an   *)
(* unparseable date, under a clock in January and a clock in December;     *)
(* creates, deletes, imports and restores in between.                      *)
(***************************************************************************)
MaxSummaryId == 3

SummaryNows == {Today, Date(2024, 12, 15)}

SummaryBody(type, amount, due) ==
  [BaseBody EXCEPT !.type = type, !.amount = amount, !.dueDate = due,
                   !.category = IF type = "income" THEN "salary" ELSE "food"]

SummaryBodies ==
  {SummaryBody("income", 100, NoDate), SummaryBody("expense", 30, NoDate),
   SummaryBody("expense", 20, Date(2023, 12, 31)), SummaryBody("expense", 10, BadDate),
   [SummaryBody("expense", 50, Date(2024, 12, 31)) EXCEPT
      !.paymentMethod = "credit_card", !.installments = 2]}

(* a file with an income of December 2024 and a child dated January 2025 *)
SummarySnapshots ==
  {<<[Row(11, NoId, 300) EXCEPT !.type = "income", !.category = "salary",
                                !.dueDate = Date(2024, 12, 1)],
     [Row(12, 11, 60) EXCEPT !.dueDate = Date(2025, 1, 1)]>>}

(* an import of an income of the month of the clock, a row the schema      *)
(* rejects and an expense of January 2025                                  *)
ImportBatches ==
  {<<SummaryBody("income", 200, NoDate), SummaryBody("expense", 0, NoDate),
     SummaryBody("expense", 70, Date(2025, 1, 1))>>}

InitSummary ==
  /\ transactions = <<>>
  /\ last = Response("init", 0, NoStr, NoId, NoBody, <<>>)
  /\ nextId = 1
  /\ now \in SummaryNows
  /\ cloud = [p \in profiles |-> NoBlob]
  /\ resumo = ResumoInit

NextSummary ==
  \/ \E q \in Queries, b \in SummaryBodies :
       nextId + IdsNeeded(b) - 1 <= MaxSummaryId /\ PostTransaction(q, b)
  \/ \E q \in Queries, id \in 1..nextId : DeleteTransaction(q, id)
  \/ \E q \in Queries, batch \in ImportBatches :
       nextId + Len(ParsedRows(batch)) - 1 <= MaxSummaryId /\ PostImport(q, batch)
  \/ \E rows \in SummarySnapshots : CloudWrite("tais", rows)
  \/ \E q \in Queries : nextId + IdsOfRestore(q) - 1 <= MaxSummaryId /\ PostRestore(q)
  \/ \E q \in Queries : GetSummary(q)

SpecSummary == InitSummary /\ [][NextSummary]_vars

(***************************************************************************)
(* The page Resumo: creates of a single record and saves of both profiles; *)
(* at most MaxAbandoned requests given up by a timeout are in flight when  *)
(* a save starts.  The timer always runs and fires: the event loop of the  *)
(* browser is never blocked.  No answer is ever promised.                  *)
(***************************************************************************)
MaxSaveId == 1

MaxAbandoned == 1

SaveBodies == {CreateBody(100, "pix", NoNum, FALSE)}

NextSave ==
  \/ \E q \in Queries, b \in SaveBodies : nextId <= MaxSaveId /\ PostTransaction(q, b)
  \/ \E p \in profiles : Len(resumo.requests) < MaxAbandoned /\ HandleSave(p)
  \/ \E i \in 1..Len(resumo.requests) : BackupServed(i)
  \/ \E i \in 1..Len(resumo.requests) : BackupUnreachable(i)
  \/ \E i \in 1..Len(resumo.requests) : ResponseArrives(i)
  \/ Tick
  \/ TimerFires

SpecSave == Init /\ [][NextSave]_vars /\ WF_vars(Tick) /\ WF_vars(TimerFires)

(***************************************************************************)
(* Properties                                                              *)
(***************************************************************************)
StoredOf(P) == {t \in MapValues(transactions) : t.profile = P}

Range(seq) == {seq[i] : i \in 1..Len(seq)}

Abs(x) == IF x < 0 THEN -x ELSE x

RECURSIVE SumAmounts(_)
SumAmounts(seq) ==
  IF seq = <<>> THEN 0 ELSE seq[Len(seq)].amount + SumAmounts(SubSeq(seq, 1, Len(seq) - 1))

(* the last request was a purchase that the handler expands *)
ExpansionRequested(r) ==
  r.op = "create" /\ insertTransactionSchema(r.body) /\ IsInstallmentPurchase(r.body)

(* the last request was a create that the handler does not expand *)
SingleRequested(r) ==
  r.op = "create" /\ insertTransactionSchema(r.body) /\ ~IsInstallmentPurchase(r.body)

(* C1: in every reachable store state and for every profile P, list(P)     *)
(* holds exactly the stored records of profile P, each once, and           *)
(* get(id, P) is not-found whenever the record stored under id belongs to  *)
(* another profile; the GET handlers answer accordingly.                   *)
C1_ProfileIsolation ==
  /\ \A P \in profiles :
       LET listed == getAllTransactions(transactions, P)
       IN  /\ Range(listed) = StoredOf(P)
           /\ Len(listed) = Cardinality(StoredOf(P))
  /\ \A P \in profiles, id \in MapKeys(transactions) :
       MapGet(transactions, id)[1].profile # P
         => getTransactionById(transactions, id, P) = <<>>
  /\ last.op = "list" =>
       /\ Range(last.result) = StoredOf(last.profile)
       /\ Len(last.result) = Cardinality(StoredOf(last.profile))
  /\ (/\ last.op = "get"
      /\ \E t \in MapValues(transactions) : t.id = last.id /\ t.profile # last.profile)
       => last.status = 404 /\ last.result = <<>>

(* a get of a stored record through the other profile was answered, while  *)
(* both profiles hold records                                              *)
C1_Witness ==
  /\ last.op = "get"
  /\ last.status = 404
  /\ last.id \in MapKeys(transactions)
  /\ \A P \in profiles : StoredOf(P) # {}

(* C2 (as claimed): an accepted update never changes the record's id,      *)
(* profile, parentTransactionId, installments or currentInstallment.       *)
C2_UpdateKeepsIdentity ==
  [][(last'.op = "update" /\ last'.status = 200) =>
       LET old == MapGet(transactions, last'.id)[1]
           new == MapGet(transactions', last'.id)[1]
       IN  /\ new.id = old.id
           /\ new.profile = old.profile
           /\ new.parentTransactionId = old.parentTransactionId
           /\ new.installments = old.installments
           /\ new.currentInstallment = old.currentInstallment]_vars

(* C3: update, delete and deleteByParent called with a profile other than  *)
(* the profile of the record(s) they target return undefined, false and 0  *)
(* and leave the store as it is.                                           *)
C3_CrossProfileNotFound ==
  /\ \A id \in MapKeys(transactions), P \in profiles :
       MapGet(transactions, id)[1].profile # P =>
         /\ \A b \in UpdateBodies :
              updateTransactionSchema(b) =>
                updateTransaction(transactions, id, ParsedData(b), P)
                  = [store |-> transactions, result |-> <<>>]
         /\ deleteTransaction(transactions, id, P)
              = [store |-> transactions, result |-> FALSE]
  /\ \A parentId \in 1..nextId, P \in profiles :
       (\A t \in MapValues(transactions) :
          t.parentTransactionId = parentId => t.profile # P)
         => deleteTransactionsByParentId(transactions, parentId, P)
              = [store |-> transactions, result |-> 0]

(* an update of a stored record through the other profile was answered     *)
(* not-found, and a stored installment belongs to another profile than the *)
(* one a deleteByParent of its parent id could be called with              *)
C3_Witness ==
  /\ last.op = "update"
  /\ updateTransactionSchema(last.body)
  /\ last.status = 404
  /\ \E t \in MapValues(transactions) : t.id = last.id /\ t.profile # last.profile
  /\ \E t \in MapValues(transactions) : t.parentTransactionId # NoId

(* C4 (as claimed): a valid create that is not a credit-card purchase in   *)
(* two or more installments stores exactly one new record, with            *)
(* installments = 1, currentInstallment = 1 and no parentTransactionId,    *)
(* whatever the body carried.                                              *)
C4_SingleCreate ==
  [][SingleRequested(last') =>
       /\ Len(transactions') = Len(transactions) + 1
       /\ SubSeq(transactions', 1, Len(transactions)) = transactions
       /\ LET t == transactions'[Len(transactions')]
          IN  /\ t.id \notin MapKeys(transactions)
              /\ t.installments = 1
              /\ t.currentInstallment = 1
              /\ t.parentTransactionId = NoId]_vars

(* C5 (as claimed): a valid credit-card create with installments = N >= 2  *)
(* stores exactly N new records in the request's profile; the first has no *)
(* parent, the others have the first one's id as parent,                   *)
(* currentInstallment runs 1..N and all have installments = N.             *)
C5_Expansion ==
  [][ExpansionRequested(last') =>
       LET N == last'.body.installments
           new == SelectSeq(transactions', LAMBDA t : t.id \notin MapKeys(transactions))
       IN  /\ Len(new) = N
           /\ Len(transactions') = Len(transactions) + N
           /\ SubSeq(transactions', 1, Len(transactions)) = transactions
           /\ \A i \in 1..Len(new) :
                /\ new[i].profile = last'.profile
                /\ new[i].installments = N
                /\ new[i].currentInstallment = i
                /\ new[i].parentTransactionId = IF i = 1 THEN NoId ELSE new[1].id]_vars

(* the day k months after dt, on the last day of the month when the month  *)
(* is too short                                                            *)
ClampedDate(dt, k) ==
  LET ym == dt \div 100 + k
      d == dt % 100
  IN  ym * 100 + (IF d <= DaysInMonth(ym) THEN d ELSE DaysInMonth(ym))

(* C6 (as claimed): installment i is due in the month (i-1) months after   *)
(* the base date's month, on the base day or on the month's last day when  *)
(* the month is shorter; 2024-01-31 in 3 installments is due 2024-01-31,   *)
(* 2024-02-29, 2024-03-31.                                                 *)
C6_DueDatesClamped ==
  (ExpansionRequested(last) /\ last.status = 201) =>
    LET base == IF last.body.dueDate # NoDate THEN last.body.dueDate ELSE now
    IN  /\ \A i \in 1..Len(last.result) :
             /\ last.result[i].dueDate = ClampedDate(base, i - 1)
             /\ last.result[i] \in MapValues(transactions)
        /\ (base = Date(2024, 1, 31) /\ last.body.installments = 3) =>
             [i \in 1..3 |-> last.result[i].dueDate]
               = <<Date(2024, 1, 31), Date(2024, 2, 29), Date(2024, 3, 31)>>

(* C7 (as claimed): the N per-installment amounts of an expansion of T     *)
(* cents sum to within one cent of T.                                      *)
C7_SumWithinOneCent ==
  (ExpansionRequested(last) /\ last.status = 201) =>
    /\ Len(last.result) = last.body.installments
    /\ Abs(SumAmounts(last.result) - last.body.amount) <= 1

(* C7 (amended): the N per-installment amounts of an expansion of T cents  *)
(* are all the same and sum to within N/2 cents of T.                      *)
C7_SumWithinHalfCentEach ==
  (ExpansionRequested(last) /\ last.status = 201) =>
    /\ Len(last.result) = last.body.installments
    /\ Range(last.result) \subseteq MapValues(transactions)
    /\ \A i \in 1..Len(last.result) : last.result[i].amount = last.result[1].amount
    /\ 2 * Abs(SumAmounts(last.result) - last.body.amount) <= last.body.installments

(* an expansion was stored whose amounts sum to more than one cent away    *)
(* from the total                                                          *)
C7_Witness ==
  /\ ExpansionRequested(last)
  /\ last.status = 201
  /\ Len(transactions) = last.body.installments
  /\ Abs(SumAmounts(transactions) - last.body.amount) > 1

(* C8 (as claimed): every stored record has amount > 0.                    *)
C8_AmountsPositive == \A t \in MapValues(transactions) : t.amount > 0

(* the records of the series whose first installment has the given id *)
SeriesOf(m, id) == {t \in MapValues(m) : t.id = id \/ t.parentTransactionId = id}

(* C9 (as claimed): a delete of the first installment of a series removes  *)
(* every record of the series in the same operation; a delete of any other *)
(* record removes exactly that record.                                     *)
C9_DeleteCascade ==
  [][(last'.op = "delete" /\ last'.status = 204) =>
       LET t == MapGet(transactions, last'.id)[1]
       IN  IF t.parentTransactionId = NoId /\ Cardinality(SeriesOf(transactions, t.id)) > 1
             THEN MapValues(transactions')
                    = MapValues(transactions) \ SeriesOf(transactions, t.id)
             ELSE transactions' = MapDelete(transactions, t.id)]_vars

(* C10 (as claimed): after a request for an expansion into N installments  *)
(* either all N records of the series are stored or none is, and none is   *)
(* when the request failed.                                                *)
C10_ExpansionAllOrNothing ==
  ExpansionRequested(last) =>
    LET stored == Cardinality(SeriesOf(transactions, last.id))
    IN  /\ stored \in {0, last.body.installments}
        /\ last.status # 201 => stored = 0

(* the records of profile P in the store m *)
RecordsOf(m, P) == {t \in MapValues(m) : t.profile = P}

(* a row that is a JSON object and passes the validation of the schema *)
IsValidRow(t) ==
  /\ t # NullRow
  /\ t.type \in transactionTypes /\ t.amount > 0 /\ t.description \notin {NoStr, ""}
  /\ t.paymentMethod \in paymentMethods
  /\ t.category \in incomeCategories \cup expenseCategories
  /\ t.cardOperator = NoStr \/ t.cardOperator \in cardOperators
  /\ t.installments = NoNum \/ t.installments \in 1..MaxInstallments
  /\ t.currentInstallment = NoNum \/ t.currentInstallment >= 1
  /\ t.profile = NoStr \/ t.profile \in profiles

(* the positions of the rows of a file that a restore has to insert *)
RowsToInsert(rows) ==
  {i \in 1..Len(rows) :
     IsValidRow(rows[i]) /\ (rows[i].parentTransactionId = NoId => rows[i].id # NoId)}

(* the last step was a restore that found a file with rows *)
RestoredFromRows ==
  last'.op = "restore" /\ cloud[last'.profile].exists /\ cloud[last'.profile].rows # <<>>

(* C11 (as claimed): a restore that fails after clearing does not leave    *)
(* the profile with fewer records than the file has valid rows without     *)
(* reporting how many rows were written.                                   *)
C11_RestoreFailureReported ==
  [][RestoredFromRows =>
       \/ "count" \in DOMAIN last'.result
       \/ Cardinality(RecordsOf(transactions', last'.profile))
            >= Cardinality(RowsToInsert(cloud[last'.profile].rows))]_vars

(* C16: when the file of the profile is absent or holds an empty list, the *)
(* restore answers 404 and the store is unchanged: no record of any        *)
(* profile is removed, added or modified.                                  *)
C16_RestoreNotFound ==
  [][(last'.op = "restore"
      /\ (~cloud[last'.profile].exists \/ cloud[last'.profile].rows = <<>>)) =>
       last'.status = 404 /\ transactions' = transactions]_vars

(* a restore of a profile with records answered 404 on an empty list *)
C16_Witness ==
  /\ last.op = "restore" /\ last.status = 404
  /\ cloud[last.profile].exists
  /\ RecordsOf(transactions, last.profile) # {}

(* the ids of the rows of a file *)
RowIds(rows) == {rows[i].id : i \in {j \in 1..Len(rows) : rows[j] # NullRow}}

(* C17: after a restore of profile P that answered 200, no record that was *)
(* stored for P before the restore and is not in the file is in the store. *)
C17_RestoreReplaces ==
  [][(last'.op = "restore" /\ last'.status = 200) =>
       \A t \in RecordsOf(transactions, last'.profile) :
         t.id \in MapKeys(transactions') => t.id \in RowIds(cloud[last'.profile].rows)]_vars

(* a restore answered 200 and deleted a record that is not in the file *)
C17_Witness ==
  /\ last.op = "restore" /\ last.status = 200
  /\ last.result.deleted \ RowIds(cloud[last.profile].rows) # {}
  /\ RecordsOf(transactions, last.profile) # {}

(* the record t carries what the row says, next to id, profile and parent *)
ImageOf(t, row, nowv) ==
  /\ \A f \in SchemaFields \ {"profile", "parentTransactionId", "createdAt"} : t[f] = row[f]
  /\ t.createdAt = IF row.createdAt = NoDate THEN nowv ELSE row.createdAt

(* the ids of the rows without parentTransactionId that a restore inserts *)
InsertedParentIds(rows) ==
  {rows[i].id : i \in {j \in RowsToInsert(rows) : rows[j].parentTransactionId = NoId}}

(* C18: after a restore that answered 200, every row without               *)
(* parentTransactionId that was inserted is stored under its id in the     *)
(* file, every inserted row with parentTransactionId is stored with the id *)
(* of its parent when the parent was inserted from the same file and with  *)
(* the parentTransactionId of the file otherwise, and the profile holds    *)
(* nothing else.                                                           *)
C18_RestoreLinkage ==
  [][(last'.op = "restore" /\ last'.status = 200) =>
       LET P == last'.profile
           rows == cloud[P].rows
           after == RecordsOf(transactions', P)
           IsParentImage(t, row) ==
             /\ row.parentTransactionId = NoId /\ t.parentTransactionId = NoId
             /\ t.id = row.id /\ ImageOf(t, row, now)
           IsChildImage(t, row) ==
             /\ row.parentTransactionId # NoId /\ ImageOf(t, row, now)
             /\ t.id \notin RowIds(rows)
             /\ IF row.parentTransactionId \in InsertedParentIds(rows)
                  THEN \E p \in after : p.id = t.parentTransactionId
                                        /\ p.id = row.parentTransactionId
                  ELSE t.parentTransactionId = row.parentTransactionId
       IN  /\ \A id \in InsertedParentIds(rows) :
                \E t \in after, i \in RowsToInsert(rows) : t.id = id /\ IsParentImage(t, rows[i])
           /\ \A i \in RowsToInsert(rows) :
                rows[i].parentTransactionId # NoId => \E t \in after : IsChildImage(t, rows[i])
           /\ \A t \in after :
                \E i \in RowsToInsert(rows) :
                  IsParentImage(t, rows[i]) \/ IsChildImage(t, rows[i])]_vars

(* a restore stored a first installment under the id of the file, its      *)
(* child under the id of that parent                                       *)
C18_Witness ==
  /\ last.op = "restore" /\ last.status = 200
  /\ \E p, c \in RecordsOf(transactions, last.profile) :
       /\ p.id \in InsertedParentIds(cloud[last.profile].rows)
       /\ c.parentTransactionId = p.id /\ c.id \notin RowIds(cloud[last.profile].rows)

(* the fields of a record that are not ids *)
NonIdFields(t) == [f \in SchemaFields \ {"parentTransactionId"} |-> t[f]]

(* the records of profile P in the store m, in the order of the Map *)
RecordSeqOf(m, P) == SelectSeq(m, LAMBDA t : t.profile = P)

TimesIn(s, x) == Cardinality({i \in 1..Len(s) : NonIdFields(s[i]) = x})

(* the same multiset of records, compared on the fields that are not ids *)
SameRecords(s1, s2) ==
  \A x \in {NonIdFields(t) : t \in Range(s1) \cup Range(s2)} : TimesIn(s1, x) = TimesIn(s2, x)

(* every child refers to a record of the set that is a first installment *)
LinkagePreserved(set) ==
  \A c \in set : c.parentTransactionId # NoId =>
    \E p \in set : p.id = c.parentTransactionId /\ p.parentTransactionId = NoId

(* C15 (as claimed): a restore of profile P right after a backup of P      *)
(* leaves P with the same multiset of records, compared on the fields that *)
(* are not ids, and every child still refers to the first installment of   *)
(* its series.                                                             *)
C15_BackupRestoreRoundTrip ==
  [][(last.op = "backup" /\ last'.op = "restore" /\ last'.profile = last.profile) =>
       /\ SameRecords(RecordSeqOf(transactions, last.profile),
                      RecordSeqOf(transactions', last.profile))
       /\ LinkagePreserved(RecordsOf(transactions, last.profile))
            => LinkagePreserved(RecordsOf(transactions', last.profile))]_vars

(* C19 (as claimed): a restore from a file with rows answers with the      *)
(* number of rows it inserted; a row that fails validation is skipped and  *)
(* not counted, and the other rows are inserted.                           *)
C19_RestoreCountsInserted ==
  [][RestoredFromRows =>
       LET rows == cloud[last'.profile].rows
       IN  /\ last'.status = 200
           /\ last'.result.count = Cardinality(RowsToInsert(rows))
           /\ InsertedParentIds(rows) \subseteq MapKeys(transactions')]_vars

(* C20 (as claimed): an insert under a caller-supplied id never replaces   *)
(* or alters a record already stored under that id: the records that a     *)
(* restore finds in the store after its clearAllTransactions, those of the *)
(* other profiles, are in the store after it.                              *)
C20_SuppliedIdNeverReplaces ==
  [][last'.op = "restore" =>
       \A t \in MapValues(transactions) :
         t.profile # last'.profile => t \in MapValues(transactions')]_vars

(* dueDate if present, else createdAt *)
EffectiveDate(t) == IF t.dueDate = NoDate THEN t.createdAt ELSE t.dueDate

(* the calendar month of a date, counted from year 0; an unparseable date  *)
(* is in no month                                                          *)
InMonth(t, ym) == EffectiveDate(t) # BadDate /\ EffectiveDate(t) \div 100 = ym

AfterMonth(t, ym) == EffectiveDate(t) # BadDate /\ EffectiveDate(t) \div 100 > ym

RECURSIVE AmountOf(_)
AmountOf(S) ==
  IF S = {} THEN 0
  ELSE LET t == CHOOSE x \in S : TRUE IN t.amount + AmountOf(S \ {t})

(* C12: after summarize(P), totalIncome is the sum of amount over the      *)
(* income records of P whose effective date is in the month of the clock,  *)
(* totalExpenses the same sum over the expense records, and balance their  *)
(* difference; records of other months and of other profiles do not count. *)
C12_SummaryTotals ==
  last.op = "summary" =>
    LET mine == RecordsOf(transactions, last.profile)
        income == AmountOf({t \in mine : t.type = "income" /\ InMonth(t, now \div 100)})
        expenses == AmountOf({t \in mine : t.type = "expense" /\ InMonth(t, now \div 100)})
    IN  /\ last.result.totalIncome = income
        /\ last.result.totalExpenses = expenses
        /\ last.result.balance = income - expenses

(* a summary with income and expenses of the month, of a profile that also *)
(* has records of other months, next to records of the other profile       *)
C12_Witness ==
  /\ last.op = "summary"
  /\ last.result.totalIncome > 0 /\ last.result.totalExpenses > 0
  /\ \E t \in RecordsOf(transactions, last.profile) : ~InMonth(t, now \div 100)
  /\ \E t \in MapValues(transactions) : t.profile # last.profile /\ InMonth(t, now \div 100)

(* C13: after summarize(P), futureExpenses is the sum of amount over the    *)
(* expense records of P whose effective year * 12 + month is greater than  *)
(* that of the clock, and no record counts both for the month of the clock *)
(* and for the future, also from December to January of the next year.     *)
C13_FutureExpenses ==
  last.op = "summary" =>
    LET mine == RecordsOf(transactions, last.profile)
    IN  /\ last.result.futureExpenses
             = AmountOf({t \in mine : t.type = "expense" /\ AfterMonth(t, now \div 100)})
        /\ \A t \in mine : ~(isCurrentMonth(t, now) /\ isFutureMonth(t, now))
        /\ last.result.totalExpenses + last.result.futureExpenses
             <= AmountOf({t \in mine : t.type = "expense"})

(* a summary in December with an expense of December and an expense of     *)
(* January of the next year                                                *)
C13_Witness ==
  /\ last.op = "summary" /\ now \div 100 = 2024 * 12 + 11
  /\ last.result.futureExpenses > 0 /\ last.result.totalExpenses > 0
  /\ \E t \in RecordsOf(transactions, last.profile) :
       t.type = "expense" /\ EffectiveDate(t) \div 100 = 2025 * 12

(* C14: after summarize(P), transactionCount is the number of stored       *)
(* records of P, whatever their dates.                                     *)
C14_TransactionCount ==
  last.op = "summary" =>
    last.result.transactionCount = Cardinality(RecordsOf(transactions, last.profile))

(* a summary of a profile with records in and out of the month of the      *)
(* clock, one of them with an unparseable date                             *)
C14_Witness ==
  /\ last.op = "summary" /\ last.result.transactionCount >= 2
  /\ \E t \in RecordsOf(transactions, last.profile) : InMonth(t, now \div 100)
  /\ \E t \in RecordsOf(transactions, last.profile) : EffectiveDate(t) = BadDate

(* C28 (as claimed): a restore of profile P, whatever the file holds,       *)
(* leaves the records of every other profile as they were: none is         *)
(* removed, replaced, modified or added.                                   *)
C28_RestoreFrame ==
  [][last'.op = "restore" =>
       \A o \in profiles \ {last'.profile} :
         RecordSeqOf(transactions', o) = RecordSeqOf(transactions, o)]_vars

(* C29 (as claimed): after a restore of profile P that answered 200, the   *)
(* count of the answer is the number of records stored for P.              *)
C29_RestoreCountIsStored ==
  [][(last'.op = "restore" /\ last'.status = 200) =>
       last'.result.count = Len(RecordSeqOf(transactions', last'.profile))]_vars

(* C24: a restore whose read of the file fails for another reason than a   *)
(* missing file answers 500, which is not the 404 of an absent or empty    *)
(* file, and leaves the store unchanged.                                   *)
C24_RestoreBackendFailure ==
  [][(last'.op = "restore" /\ "read" \in DOMAIN last'.result) =>
       /\ last'.status = 500
       /\ last'.status # 404
       /\ transactions' = transactions]_vars

(* a restore of a profile with records failed on the read, while the       *)
(* profile has a file with rows                                            *)
C24_Witness ==
  /\ last.op = "restore" /\ "read" \in DOMAIN last.result /\ last.status = 500
  /\ RecordsOf(transactions, last.profile) # {}
  /\ cloud[last.profile].exists /\ cloud[last.profile].rows # <<>>

(* the positions of the rows of a batch that pass validation *)
ValidPositions(batch) == {i \in 1..Len(batch) : IsValidRow(batch[i])}

(* C23: POST /api/import skips a row that fails validation and stores      *)
(* every valid row before and after it; the imported count of the answer   *)
(* is the number of valid rows and the number of records added to the      *)
(* profile.                                                                *)
C23_ImportSkipsInvalid ==
  [][last'.op = "import" =>
       LET P == last'.profile
           stored == last'.result.transactions
           added == RecordsOf(transactions', P) \ RecordsOf(transactions, P)
       IN  /\ last'.status = 201
           /\ last'.result.imported = Len(stored)
           /\ last'.result.imported = Cardinality(added)
           /\ added = Range(stored)
           /\ RecordsOf(transactions, P) \subseteq RecordsOf(transactions', P)
           /\ Cardinality(ValidPositions(last'.body)) = Len(stored)
           /\ \A i \in ValidPositions(last'.body) :
                LET k == Cardinality({j \in ValidPositions(last'.body) : j <= i})
                IN  /\ ImageOf(stored[k], last'.body[i], now)
                    /\ stored[k].parentTransactionId = last'.body[i].parentTransactionId
                    /\ stored[k].id \notin MapKeys(transactions)]_vars

(* an import stored the valid rows on both sides of a rejected row and of  *)
(* a null, into a profile that holds a record already                      *)
C23_Witness ==
  /\ last.op = "import" /\ last.result.imported = 2 /\ Len(last.body) = 4
  /\ \E a, b \in Range(last.result.transactions) : a.amount = 100 /\ b.amount = 200
  /\ Cardinality(RecordsOf(transactions, last.profile)) = 3

(* C26 (as claimed): every stored record has                               *)
(* 1 <= currentInstallment <= installments <= 48.                          *)
C26_InstallmentBounds ==
  \A t \in MapValues(transactions) :
    /\ 1 <= t.currentInstallment
    /\ t.currentInstallment <= t.installments
    /\ t.installments <= MaxInstallments

(* C27 (as claimed): every stored record with a parentTransactionId refers *)
(* to a stored record of the same profile that has no parentTransactionId  *)
(* and has currentInstallment = 1.                                         *)
C27_NoOrphans ==
  \A t \in MapValues(transactions) :
    t.parentTransactionId # NoId =>
      \E p \in MapValues(transactions) :
        /\ p.id = t.parentTransactionId /\ p.profile = t.profile
        /\ p.parentTransactionId = NoId /\ p.currentInstallment = 1

(* the fingerprints of the stored records of profile P *)
StoredFingerprints(P) ==
  {getTransactionKey(ExistingItem(t)) : t \in RecordsOf(transactions, P)}

(* C21: in the preview of a sheet a row is marked duplicate if and only if *)
(* its fingerprint is the fingerprint of a stored record or of an earlier  *)
(* row of the sheet that was not marked; the second of two identical rows  *)
(* is marked and the first is not when no stored record matches.           *)
C21_PreviewDuplicates ==
  last.op = "preview" =>
    LET items == last.result.importPreview
        Key(i) == getTransactionKey(items[i])
    IN  /\ Len(items) = Len(last.body)
        /\ \A i \in 1..Len(items) :
             items[i].isDuplicate <=>
               \/ Key(i) \in StoredFingerprints(last.profile)
               \/ \E j \in 1..(i - 1) : ~items[j].isDuplicate /\ Key(j) = Key(i)

(* a preview of two identical rows that match no stored record of a        *)
(* profile with records: the first is not marked, the second is            *)
C21_Witness ==
  /\ last.op = "preview" /\ Len(last.result.importPreview) = 2
  /\ getTransactionKey(last.result.importPreview[1]) = getTransactionKey(last.result.importPreview[2])
  /\ ~last.result.importPreview[1].isDuplicate /\ last.result.importPreview[2].isDuplicate
  /\ getTransactionKey(last.result.importPreview[1]) \notin StoredFingerprints(last.profile)
  /\ RecordsOf(transactions, last.profile) # {}

(* C22 (as claimed): a row of the preview matches a stored record that has *)
(* a dueDate exactly when the other fields of the fingerprint are equal    *)
(* and the day of the row is the day of the dueDate.                       *)
C22_FingerprintUsesEffectiveDate ==
  last.op = "preview" =>
    \A i \in 1..Len(last.result.importPreview) :
      \A t \in RecordsOf(transactions, last.profile) :
        t.dueDate # NoDate =>
          (isDuplicateTransaction(last.result.importPreview[i], <<t>>) <=>
             /\ SubSeq(getTransactionKey(last.result.importPreview[i]), 1, 8)
                  = SubSeq(getTransactionKey(ExistingItem(t)), 1, 8)
             /\ last.result.importPreview[i].dateKey = formatDateKey(t.dueDate))

(* C30 (as claimed): after a sheet was previewed, confirmed and stored, a  *)
(* preview of the same sheet for the same profile marks every row as       *)
(* duplicate.                                                              *)
C30_ImportIdempotent ==
  [][(last.op = "confirm" /\ last.status = 201 /\ last'.op = "preview"
      /\ last'.profile = last.profile /\ last'.body = last.body) =>
       \A i \in 1..Len(last'.result.importPreview) : last'.result.importPreview[i].isDuplicate]_vars

(* C25: a save ends with the request still in flight only when the ten     *)
(* seconds are over, and then with the description of the timeout; a save  *)
(* that ends on an answer shows the success or, for a failed backup, the   *)
(* description of the failure, which is another text; and a save that has  *)
(* started always ends: isSaving returns to false.                         *)
C25_SaveTimesOut ==
  /\ [][(resumo.isSaving /\ ~resumo'.isSaving) =>
          LET inFlight == Len(resumo'.requests) = Len(resumo.requests)
              answer == resumo.requests[Len(resumo.requests)].state
          IN  /\ TimeoutDescription # FailureDescription
              /\ inFlight <=> resumo'.toast = TimeoutDescription
              /\ inFlight => resumo.elapsed = SaveTimeout
              /\ ~inFlight /\ answer = "ok" => resumo'.toast = SuccessDescription
              /\ ~inFlight /\ answer = "failed" => resumo'.toast = FailureDescription]_vars
  /\ [](resumo.isSaving => resumo.elapsed <= SaveTimeout)
  /\ (resumo.isSaving ~> ~resumo.isSaving)

(* a save has timed out and its request is still in flight *)
C25_Witness ==
  /\ ~resumo.isSaving /\ resumo.toast = TimeoutDescription
  /\ Len(resumo.requests) = 1 /\ resumo.requests[1].state = "sent"

====
